---- MODULE Spec2Model ----
(***************************************************************************)
(* Model of girder/utility/s3_assetstore_adapter.py (S3AssetstoreAdapter). *)
(*                                                                         *)
(* Python strings are sequences of one-character strings, dicts are        *)
(* functions whose domain is the set of keys present.                      *)
(*                                                                         *)
(* initUpload slices the value of uuid.uuid4() and joins the integer       *)
(* expiry into the canonical message as if both were text.  The model      *)
(* takes the text of each: uid is the UUID's string, and the expiry enters *)
(* the message as its decimal digits.                                      *)
(***************************************************************************)
EXTENDS Integers, Sequences, FiniteSets, TLC

VARIABLES
    doc,        \* validateInfo: the config dict handed in (mutated in place)
    vResult,    \* validateInfo: outcome of the last call
    s3Objects,  \* provider: <<bucket, key name>> of the objects written
    logged,     \* logger: provider exceptions logged so far
    vFault,     \* history: where the provider raised in the last probe ("none": nowhere)
    vInput,     \* history: the config dict as it was handed to the last call
    assetstore, \* S3AssetstoreAdapter.assetstore
    uploads,    \* the upload records, by record id
    clock,      \* wall clock, in ticks of 1/TicksPerSec second
    issued,     \* the unique ids uuid4 has handed out
    sessions,   \* history: per record, the uid drawn and the clock read by its initUpload
    chunkCalls, \* history: per record, the number of uploadChunk calls made
    finalized,  \* per record, the outcome of the last finalizeUpload call
    pc,         \* concurrent initUpload: position of each call
    frame,      \* concurrent initUpload: the local variables of each call
    sgA, sgB    \* signing: two input tuples

valVars == <<doc, vResult, s3Objects, logged, vFault, vInput>>
upVars == <<assetstore, uploads, clock, issued, sessions, chunkCalls, finalized>>
conVars == <<pc, frame>>
sgVars == <<sgA, sgB>>
vars == <<valVars, upVars, conVars, sgVars>>

----------------------------------------------------------------------------
(* Bounds *)

MaxPrefixLen == 3
MaxClock == 2
TicksPerSec == 2
UidLen == 5
UidFreeLen == 2
MaxChunkCalls == 2
MaxStrLen == 2

----------------------------------------------------------------------------
(* Python string and dict helpers *)

\* All sequences over alphabet A of length at most n.
StringsUpTo(A, n) == UNION {[1..k -> A] : k \in 0..n}

\* s[i:] and s[:-1]
Tail1(s) == SubSeq(s, 2, Len(s))
Front1(s) == SubSeq(s, 1, Len(s) - 1)

\* sep.join(parts)
RECURSIVE Join(_, _)
Join(sep, parts) ==
    IF Len(parts) = 0 THEN <<>>
    ELSE IF Len(parts) = 1 THEN parts[1]
    ELSE parts[1] \o sep \o Join(sep, Tail(parts))

\* str(n) for n >= 0
Digit(d) == <<"0", "1", "2", "3", "4", "5", "6", "7", "8", "9">>[d + 1]
RECURSIVE IntToStr(_)
IntToStr(n) == IF n < 10 THEN <<Digit(n)>> ELSE IntToStr(n \div 10) \o <<Digit(n % 10)>>

\* d[k] = v
DictSet(d, k, v) == [x \in DOMAIN d \cup {k} |-> IF x = k THEN v ELSE d[x]]

\* not d.get(k)
Falsy(d, k) == k \notin DOMAIN d \/ d[k] = <<>>

\* os.path.join(a, b) for a relative b
PathJoin(a, b) ==
    IF a = <<>> THEN b
    ELSE IF a[Len(a)] = "/" THEN a \o b
    ELSE a \o <<"/">> \o b

----------------------------------------------------------------------------
(* validateInfo *)

\* while len(p) and p[0] == '/': p = p[1:]
RECURSIVE StripLeading(_)
StripLeading(p) == IF Len(p) > 0 /\ p[1] = "/" THEN StripLeading(Tail1(p)) ELSE p

\* while len(p) and p[-1] == '/': p = p[:-1]
RECURSIVE StripTrailing(_)
StripTrailing(p) == IF Len(p) > 0 /\ p[Len(p)] = "/" THEN StripTrailing(Front1(p)) ELSE p

NormalizePrefixLeadingOnly(d) ==
    LET d1 == IF "prefix" \in DOMAIN d THEN d ELSE DictSet(d, "prefix", <<>>)
    IN  DictSet(d1, "prefix", StripLeading(d1["prefix"]))

\* lines 48-53: the prefix defaults to '' and loses its leading and trailing '/'
NormalizePrefix(d) ==
    LET d1 == IF "prefix" \in DOMAIN d THEN d ELSE DictSet(d, "prefix", <<>>)
        d2 == DictSet(d1, "prefix", StripLeading(d1["prefix"]))
    IN  DictSet(d2, "prefix", StripTrailing(d2["prefix"]))

NoResult == [kind |-> "none", exc |-> "", field |-> ""]
Returned == [kind |-> "returned", exc |-> "", field |-> ""]
Raised(e, f) == [kind |-> "raised", exc |-> e, field |-> f]

RequiredFieldsAccessKeyFirst(d) ==
    IF Falsy(d, "accessKeyId") THEN Raised("ValidationException", "accessKeyId")
    ELSE IF Falsy(d, "secret") THEN Raised("ValidationException", "secretKey")
    ELSE IF Falsy(d, "bucket") THEN Raised("ValidationException", "bucket")
    ELSE NoResult

\* lines 54-61: the first empty field, in the order bucket, secret, accessKeyId
RequiredFields(d) ==
    IF Falsy(d, "bucket") THEN Raised("ValidationException", "bucket")
    ELSE IF Falsy(d, "secret") THEN Raised("ValidationException", "secretKey")
    ELSE IF Falsy(d, "accessKeyId") THEN Raised("ValidationException", "accessKeyId")
    ELSE NoResult

\* The calls of the try block, in order; the provider may raise in any of them.
ProbeSteps == <<"connect_s3", "lookup", "Key", "set_contents_from_string">>
ProbeFaults == {"none"} \cup {ProbeSteps[i] : i \in DOMAIN ProbeSteps}

\* line 68-69: the name of the test key
TestKeyName(d) == PathJoin(d["prefix"], <<"t", "e", "s", "t">>)

ProbeFailedPropagate(d, fault) == Raised("ProviderError", fault)

\* lines 71-74: a bare except turns whatever was raised into a ValidationException
ProbeFailed(d, fault) == Raised("ValidationException", "bucket")

\* lines 64-76: the outcome of the write probe and the return
Probe(d, fault) == IF fault = "none" THEN Returned ELSE ProbeFailed(d, fault)

\* the whole of validateInfo: the dict as left behind and the outcome
ValidateInfoResult(d, fault) ==
    LET n == NormalizePrefix(d)
        r == RequiredFields(n)
    IN  [doc |-> n, probed |-> r = NoResult,
         result |-> IF r # NoResult THEN r ELSE Probe(n, fault)]

Chars == {"/", "x"}
FieldValues == {<<>>, <<"b">>}
ConfigKeys == {"prefix", "bucket", "secret", "accessKeyId"}

\* The config documents handed to validateInfo.
Configs ==
    {[k \in P |-> IF k = "prefix" THEN p ELSE f[k]] :
        P \in SUBSET ConfigKeys,
        p \in StringsUpTo(Chars, MaxPrefixLen),
        f \in [ConfigKeys \ {"prefix"} -> FieldValues]}

ValidateInfo(fault) ==
    LET out == ValidateInfoResult(doc, fault)
    IN  /\ doc' = out.doc
        /\ vResult' = out.result
        /\ vFault' = IF out.probed THEN fault ELSE "none"
        /\ vInput' = doc
        /\ s3Objects' = IF out.probed /\ fault = "none"
                          THEN s3Objects \cup {<<out.doc["bucket"], TestKeyName(out.doc)>>}
                          ELSE s3Objects
        /\ logged' = IF out.probed /\ fault # "none" THEN logged \cup {fault} ELSE logged
        /\ UNCHANGED <<upVars, conVars, sgVars>>

ValInit ==
    /\ doc \in Configs
    /\ vResult = NoResult
    /\ s3Objects = {}
    /\ logged = {}
    /\ vFault = "none"
    /\ vInput = doc

----------------------------------------------------------------------------
(* initUpload *)

CHUNK_LEN == 1024 * 1024 * 64
HMAC_TTL == 120

S_https == <<"h", "t", "t", "p", "s", ":", "/", "/">>
S_host == <<".", "s", "3", ".", "a", "m", "a", "z", "o", "n", "a", "w", "s", ".", "c", "o", "m", "/">>
S_uploads == <<"?", "u", "p", "l", "o", "a", "d", "s">>
S_acl == <<"x", "-", "a", "m", "z", "-", "a", "c", "l", ":", " ", "p", "r", "i", "v", "a", "t", "e">>
S_private == <<"p", "r", "i", "v", "a", "t", "e">>
S_PUT == <<"P", "U", "T">>
S_POST == <<"P", "O", "S", "T">>
S_s3 == <<"s", "3">>
NL == <<"\n">>

\* s[a:b] of Python, 0 <= a <= b
Slice(s, a, b) == SubSeq(s, a + 1, IF b < Len(s) THEN b ELSE Len(s))

HexDigits == {"a", "b"}

\* The texts uuid4 draws from: the ids of UidLen digits that differ in their
\* last UidFreeLen digits.
UIDs == {u \in [1..UidLen -> HexDigits] : \A k \in 1..(UidLen - UidFreeLen) : u[k] = "a"}

\* line 88: uuid4 hands out an id it has not handed out before
Uuid4(used) == UIDs \ used

ObjectKeyNoUid(uid) == Join(<<"/">>, <<Slice(uid, 0, 2), Slice(uid, 2, 4)>>)

\* line 89
ObjectKey(uid) == Join(<<"/">>, <<Slice(uid, 0, 2), Slice(uid, 2, 4), uid>>)

\* line 90
ResourcePath(store, key) == <<"/">> \o store["bucket"] \o <<"/">> \o key

\* line 91
SignedHeaders == Join(NL, <<S_acl>>)

\* lines 92-93
BaseUrl(store) == S_https \o store["bucket"] \o S_host
ObjectUrl(store, key) == BaseUrl(store) \o key

ChunkedAtThreshold(upload) == upload["size"] >= CHUNK_LEN

\* line 95
Chunked(upload) == upload["size"] > CHUNK_LEN

\* time.time(), in seconds, truncated by int()
WholeSeconds(t) == t \div TicksPerSec

\* line 96: int(time.time() + HMAC_TTL)
Expires(t) == WholeSeconds(t + HMAC_TTL * TicksPerSec)

CanonicalMsgNoExpiry(method, contentType, expires, headers, path) ==
    Join(NL, <<method, <<>>, contentType, headers, path>>)

\* lines 105, 109 and 122, 125: the tuple, joined with newlines
CanonicalMsg(method, contentType, expires, headers, path) ==
    Join(NL, <<method, <<>>, contentType, IntToStr(expires), headers, path>>)

\* lines 107-109 and 123-125: base64(HMAC-SHA1(secret, msg)), kept symbolic: both
\* functions are taken to be injective
Signature(secret, msg) == [b64 |-> [hmac |-> "sha1", key |-> secret, msg |-> msg]]

DateHeaderLive(expires, now) == WholeSeconds(now)

\* lines 117 and 133: the Date header is the variable expires
DateHeader(expires, now) == expires

\* lines 111-120 and 127-136
Request(store, method, url, signature, date) ==
    [method |-> method,
     url |-> url,
     headers |-> [Authorization |-> [scheme |-> "AWS", accessKeyId |-> store["accessKeyId"],
                                     signature |-> signature],
                  Date |-> date,
                  x_amz_acl |-> S_private]]

\* lines 98-102
S3Block(chunked) == [chunked |-> chunked, chunkLength |-> CHUNK_LEN]

\* lines 104-136: the request of either path, from the locals of the call
SignedRequest(store, upload, chunked, path, url, expires, now) ==
    IF chunked
    THEN Request(store, S_POST, url \o S_uploads,
                 Signature(store["secret"],
                           CanonicalMsg(S_POST, <<>>, expires, SignedHeaders,
                                        path \o S_uploads)),
                 DateHeader(expires, now))
    ELSE Request(store, S_PUT, url,
                 Signature(store["secret"],
                           CanonicalMsg(S_PUT, upload["mimeType"], expires,
                                        SignedHeaders, path)),
                 DateHeader(expires, now))

\* lines 98-102: upload['behavior'] and upload['s3']
Tagged(upload, chunked) ==
    DictSet(DictSet(upload, "behavior", S_s3), "s3", S3Block(chunked))

\* lines 111 and 127: upload['s3']['request']
WithRequest(upload, request) ==
    DictSet(upload, "s3", DictSet(upload["s3"], "request", request))

\* the whole of initUpload, run alone with unique id uid at clock value t
InitUploadResult(upload, store, uid, t) ==
    LET key == ObjectKey(uid)
        chunked == Chunked(upload)
    IN  WithRequest(Tagged(upload, chunked),
                    SignedRequest(store, upload, chunked, ResourcePath(store, key),
                                  ObjectUrl(store, key), Expires(t), t))

Sizes == {CHUNK_LEN - 1, CHUNK_LEN, CHUNK_LEN + 1}
MimeTypes == {<<"t">>}
FileNames == {<<"f">>}
UploadRequests ==
    {[k \in {"size", "mimeType", "name"} |->
        IF k = "size" THEN z ELSE IF k = "mimeType" THEN m ELSE n] :
        z \in Sizes, m \in MimeTypes, n \in FileNames}

\* The assetstore documents validateInfo has accepted.
Assetstores ==
    {ValidateInfoResult(c, "none").doc :
        c \in {[k \in ConfigKeys |-> IF k = "prefix" THEN p
                                      ELSE IF k = "bucket" THEN <<"b">>
                                      ELSE IF k = "secret" THEN <<"s">>
                                      ELSE <<"a">>] :
                p \in {<<>>, <<"/", "x">>}}}

Initiated(u) == "s3" \in DOMAIN u /\ "request" \in DOMAIN u["s3"]
NoSession == [uid |-> <<>>, t |-> -1]

InitUpload(i) ==
    /\ ~Initiated(uploads[i])
    /\ \E uid \in Uuid4(issued) :
        /\ uploads' = [uploads EXCEPT ![i] = InitUploadResult(@, assetstore, uid, clock)]
        /\ issued' = issued \cup {uid}
        /\ sessions' = [sessions EXCEPT ![i] = [uid |-> uid, t |-> clock]]
    /\ UNCHANGED <<assetstore, clock, chunkCalls, finalized>>
    /\ UNCHANGED <<valVars, conVars, sgVars>>

\* lines 140-141: uploadChunk is a stub
UploadChunk(i) ==
    /\ Initiated(uploads[i])
    /\ chunkCalls[i] < MaxChunkCalls
    /\ chunkCalls' = [chunkCalls EXCEPT ![i] = @ + 1]
    /\ UNCHANGED <<assetstore, uploads, clock, issued, sessions, finalized>>
    /\ UNCHANGED <<valVars, conVars, sgVars>>

\* lines 146-147: finalizeUpload is a stub, it returns None
FinalizeUpload(i) ==
    /\ Initiated(uploads[i])
    /\ finalized' = [finalized EXCEPT ![i] = "returned"]
    /\ UNCHANGED <<assetstore, uploads, clock, issued, sessions, chunkCalls>>
    /\ UNCHANGED <<valVars, conVars, sgVars>>

Tick ==
    /\ clock < MaxClock
    /\ clock' = clock + 1
    /\ UNCHANGED <<assetstore, uploads, issued, sessions, chunkCalls, finalized>>
    /\ UNCHANGED <<valVars, conVars, sgVars>>

UpInit(ids) ==
    /\ assetstore \in Assetstores
    /\ uploads \in [ids -> UploadRequests]
    /\ clock = 0
    /\ issued = {}
    /\ sessions = [i \in ids |-> NoSession]
    /\ chunkCalls = [i \in ids |-> 0]
    /\ finalized = [i \in ids |-> "none"]

UpIdle ==
    /\ assetstore = [k \in {} |-> <<>>]
    /\ uploads = <<>>
    /\ clock = 0
    /\ issued = {}
    /\ sessions = <<>>
    /\ chunkCalls = <<>>
    /\ finalized = <<>>

ValIdle ==
    /\ doc = [k \in {} |-> <<>>]
    /\ vResult = NoResult
    /\ s3Objects = {}
    /\ logged = {}
    /\ vFault = "none"
    /\ vInput = doc

ConIdle ==
    /\ pc = <<>>
    /\ frame = <<>>

SgIdle ==
    /\ sgA = <<>>
    /\ sgB = <<>>

----------------------------------------------------------------------------
(* initUpload, statement by statement, for calls that run concurrently *)

NoFrame == [uid |-> <<>>, key |-> <<>>, path |-> <<>>, url |-> <<>>,
            chunked |-> FALSE, expires |-> 0]

FrameShared(p) == CHOOSE q \in DOMAIN frame : TRUE

\* lines 88-96: uid, key, path, url, chunked and expires are locals of the call
FrameOf(p) == p

\* lines 88-93
GenKey(p) ==
    /\ pc[p] = "idle"
    /\ \E uid \in Uuid4(issued) :
        /\ frame' = [frame EXCEPT ![FrameOf(p)] =
                        [@ EXCEPT !.uid = uid,
                                  !.key = ObjectKey(uid),
                                  !.path = ResourcePath(assetstore, ObjectKey(uid)),
                                  !.url = ObjectUrl(assetstore, ObjectKey(uid))]]
        /\ issued' = issued \cup {uid}
        /\ sessions' = [sessions EXCEPT ![p].uid = uid]
    /\ pc' = [pc EXCEPT ![p] = "keyed"]
    /\ UNCHANGED <<assetstore, uploads, clock, chunkCalls, finalized>>
    /\ UNCHANGED <<valVars, sgVars>>

\* lines 95-96
ReadClock(p) ==
    /\ pc[p] = "keyed"
    /\ frame' = [frame EXCEPT ![FrameOf(p)] =
                    [@ EXCEPT !.chunked = Chunked(uploads[p]), !.expires = Expires(clock)]]
    /\ sessions' = [sessions EXCEPT ![p].t = clock]
    /\ pc' = [pc EXCEPT ![p] = "timed"]
    /\ UNCHANGED <<assetstore, uploads, clock, issued, chunkCalls, finalized>>
    /\ UNCHANGED <<valVars, sgVars>>

\* lines 98-102
TagUpload(p) ==
    /\ pc[p] = "timed"
    /\ uploads' = [uploads EXCEPT ![p] = Tagged(@, frame[FrameOf(p)].chunked)]
    /\ pc' = [pc EXCEPT ![p] = "tagged"]
    /\ UNCHANGED <<assetstore, clock, issued, sessions, chunkCalls, finalized, frame>>
    /\ UNCHANGED <<valVars, sgVars>>

\* lines 104-138
SignRequest(p) ==
    /\ pc[p] = "tagged"
    /\ LET f == frame[FrameOf(p)]
       IN  uploads' = [uploads EXCEPT ![p] =
                          WithRequest(@, SignedRequest(assetstore, @, f.chunked, f.path,
                                                       f.url, f.expires, clock))]
    /\ pc' = [pc EXCEPT ![p] = "done"]
    /\ UNCHANGED <<assetstore, clock, issued, sessions, chunkCalls, finalized, frame>>
    /\ UNCHANGED <<valVars, sgVars>>

TickConcurrent ==
    /\ clock < MaxClock
    /\ clock' = clock + 1
    /\ UNCHANGED <<assetstore, uploads, issued, sessions, chunkCalls, finalized>>
    /\ UNCHANGED <<valVars, conVars, sgVars>>

ConInit ==
    /\ pc = [p \in DOMAIN uploads |-> "idle"]
    /\ frame = [p \in DOMAIN uploads |-> NoFrame]

----------------------------------------------------------------------------
(* Signing, as a function of its inputs *)

\* lines 105-109 and 122-125: the signature of one input tuple
Sign(in) ==
    Signature(in.secret,
              CanonicalMsg(in.method, in.contentType, in.expires, SignedHeaders, in.path))

SignChars == {"a", "\n"}
SignStrings == StringsUpTo(SignChars, MaxStrLen)
SignExpiries ==
    {Expires(0), Expires(HMAC_TTL * TicksPerSec), Expires(10 * HMAC_TTL * TicksPerSec)}
InputValues(field) ==
    CASE field = "method" -> {S_PUT, S_POST}
      [] field = "contentType" -> SignStrings
      [] field = "expires" -> SignExpiries
      [] field = "path" -> SignStrings
      [] field = "secret" -> {<<"s">>, <<"t">>}
SignInputs ==
    [method : InputValues("method"),
     contentType : InputValues("contentType"),
     expires : InputValues("expires"),
     path : InputValues("path"),
     secret : InputValues("secret")]

NoSignature == Signature(<<>>, <<>>)
Unsigned(in) == [in |-> in, signed |-> FALSE, signature |-> NoSignature]

SgInit ==
    /\ sgA \in {Unsigned(in) : in \in SignInputs}
    /\ sgB = sgA

SignA ==
    /\ ~sgA.signed
    /\ sgA' = [sgA EXCEPT !.signed = TRUE, !.signature = Sign(sgA.in)]
    /\ UNCHANGED <<sgB, valVars, upVars, conVars>>

SignB ==
    /\ ~sgB.signed
    /\ sgB' = [sgB EXCEPT !.signed = TRUE, !.signature = Sign(sgB.in)]
    /\ UNCHANGED <<sgA, valVars, upVars, conVars>>

\* The second tuple becomes the first with one input replaced.
ChangeInput(field) ==
    /\ sgA.signed
    /\ \E v \in InputValues(field) \ {sgA.in[field]} :
        sgB' = Unsigned([sgA.in EXCEPT ![field] = v])
    /\ UNCHANGED <<sgA, valVars, upVars, conVars>>

----------------------------------------------------------------------------
(* Specifications *)

InitValidate == ValInit /\ UpIdle /\ ConIdle /\ SgIdle
NextValidate == \E fault \in ProbeFaults : ValidateInfo(fault)
SpecValidate == InitValidate /\ [][NextValidate]_vars

Init == ValIdle /\ UpInit({1}) /\ ConIdle /\ SgIdle
Next ==
    \/ \E i \in DOMAIN uploads : InitUpload(i)
    \/ \E i \in DOMAIN uploads : UploadChunk(i)
    \/ \E i \in DOMAIN uploads : FinalizeUpload(i)
    \/ Tick
Spec == Init /\ [][Next]_vars

InitConcurrent == ValIdle /\ UpInit({1, 2}) /\ ConInit /\ SgIdle
NextConcurrent ==
    \/ \E p \in DOMAIN uploads : GenKey(p)
    \/ \E p \in DOMAIN uploads : ReadClock(p)
    \/ \E p \in DOMAIN uploads : TagUpload(p)
    \/ \E p \in DOMAIN uploads : SignRequest(p)
    \/ TickConcurrent
SpecConcurrent == InitConcurrent /\ [][NextConcurrent]_vars

InitSign == ValIdle /\ UpIdle /\ ConIdle /\ SgInit
NextSign ==
    \/ SignA
    \/ SignB
    \/ \E field \in {"method", "contentType", "expires", "path", "secret"} :
          ChangeInput(field)
SpecSign == InitSign /\ [][NextSign]_vars

----------------------------------------------------------------------------
(* Properties of validateInfo, under SpecValidate *)

Called == vResult.kind # "none"
AllPresent(d) == ~Falsy(d, "bucket") /\ ~Falsy(d, "secret") /\ ~Falsy(d, "accessKeyId")

\* C3: validateInfo returns the config only when the write probe ran and the
\* test object was written; with bucket, secret and accessKeyId non-empty, an
\* exception of the provider anywhere in the probe ends in a
\* ValidationException with field 'bucket', never in the provider's exception.
C3_ProbeDecidesAcceptance ==
    /\ vResult.kind = "returned" =>
          /\ vFault = "none"
          /\ <<doc["bucket"], TestKeyName(doc)>> \in s3Objects
    /\ (Called /\ AllPresent(vInput) /\ vFault # "none") =>
          vResult = Raised("ValidationException", "bucket")
    /\ Called /\ vResult.kind = "raised" => vResult.exc = "ValidationException"

C3_Witness ==
    /\ AllPresent(vInput)
    /\ vFault = "set_contents_from_string"
    /\ vResult = Raised("ValidationException", "bucket")
    /\ logged # {}

\* C4 as stated: each empty field is reported under its own name, whatever the
\* other fields are.
C4_EveryEmptyFieldReported ==
    Called =>
        /\ Falsy(vInput, "bucket") => vResult = Raised("ValidationException", "bucket")
        /\ Falsy(vInput, "secret") => vResult = Raised("ValidationException", "secretKey")
        /\ Falsy(vInput, "accessKeyId") =>
              vResult = Raised("ValidationException", "accessKeyId")

\* C4 as amended: the first empty field in the order bucket, secret,
\* accessKeyId is the one reported: 'bucket' whenever the bucket is empty,
\* 'secretKey' when the secret is empty and the bucket is not, 'accessKeyId'
\* when the access key id is empty and bucket and secret are not.
C4_FirstEmptyFieldReported ==
    Called =>
        /\ Falsy(vInput, "bucket") => vResult = Raised("ValidationException", "bucket")
        /\ (~Falsy(vInput, "bucket") /\ Falsy(vInput, "secret")) =>
              vResult = Raised("ValidationException", "secretKey")
        /\ (~Falsy(vInput, "bucket") /\ ~Falsy(vInput, "secret")
                /\ Falsy(vInput, "accessKeyId")) =>
              vResult = Raised("ValidationException", "accessKeyId")

C4_Witness ==
    /\ ~Falsy(vInput, "bucket")
    /\ Falsy(vInput, "secret")
    /\ Falsy(vInput, "accessKeyId")
    /\ vResult = Raised("ValidationException", "secretKey")

NoEdgeSeparator(p) == p = <<>> \/ (p[1] # "/" /\ p[Len(p)] # "/")

\* C5: a config validateInfo returns has a prefix without leading or trailing
\* '/', and validating it again (the provider accepting the probe) returns it
\* unchanged.
C5_PrefixNormalizedIdempotent ==
    vResult.kind = "returned" =>
        /\ NoEdgeSeparator(doc["prefix"])
        /\ ValidateInfoResult(doc, "none").result = Returned
        /\ ValidateInfoResult(doc, "none").doc = doc

C5_Witness ==
    /\ vResult.kind = "returned"
    /\ "prefix" \in DOMAIN vInput
    /\ vInput["prefix"] = <<"/", "x", "/">>
    /\ doc["prefix"] = <<"x">>

----------------------------------------------------------------------------
(* Properties of initUpload, uploadChunk and finalizeUpload, under Spec *)

RequestOf(u) == u["s3"]["request"]

\* The object key a record's request addresses: the url without the host part
\* and without the '?uploads' suffix of the chunked path.
ObjectKeyOf(u) ==
    LET url == RequestOf(u).url
        base == Len(BaseUrl(assetstore))
        cut == IF u["s3"].chunked THEN Len(S_uploads) ELSE 0
    IN  SubSeq(url, base + 1, Len(url) - cut)

MessageFor(u, key) ==
    IF u["s3"].chunked
    THEN CanonicalMsg(RequestOf(u).method, <<>>, RequestOf(u).headers.Date, SignedHeaders,
                      ResourcePath(assetstore, key) \o S_uploads)
    ELSE CanonicalMsg(RequestOf(u).method, u["mimeType"], RequestOf(u).headers.Date,
                      SignedHeaders, ResourcePath(assetstore, key))

C7_KeyUnderPrefix ==
    \A i \in DOMAIN uploads :
        Initiated(uploads[i]) =>
            LET uid == sessions[i].uid
                key == PathJoin(assetstore["prefix"],
                                Join(<<"/">>, <<Slice(uid, 0, 2), Slice(uid, 2, 4), uid>>))
            IN  /\ ObjectKeyOf(uploads[i]) = key
                /\ RequestOf(uploads[i]).headers.Authorization.signature =
                      Signature(assetstore["secret"], MessageFor(uploads[i], key))

ExpectedParts(u) == (u["size"] + u["s3"].chunkLength - 1) \div u["s3"].chunkLength

\* C8 as stated: finalizeUpload of a chunked session returns only when every
\* expected part has been handed to uploadChunk.
C8_CompleteNeedsAllParts ==
    \A i \in DOMAIN uploads :
        (finalized[i] = "returned" /\ uploads[i]["s3"].chunked) =>
            chunkCalls[i] >= ExpectedParts(uploads[i])

----------------------------------------------------------------------------
(* Properties of concurrent initUpload calls, under SpecConcurrent *)

UploadRequestOf(u) == [k \in {"size", "mimeType", "name"} |-> u[k]]

----------------------------------------------------------------------------
(* Properties of signing, under SpecSign *)

Differing(a, b) == {g \in DOMAIN a : a[g] # b[g]}
MessageOf(in) ==
    CanonicalMsg(in.method, in.contentType, in.expires, SignedHeaders, in.path)

MessageInputs == {"method", "contentType", "expires", "path"}

====
